---- MODULE Spec2Model ----
(***************************************************************************)
(* Model of hack/list-products.py: a script that reads a JSON document     *)
(* from standard input and prints one summary line per product.            *)
(*                                                                         *)
(* The script is a straight-line program; every statement that can raise   *)
(* is one action, so that the order of reads, writes and failures is the   *)
(* order of the statements of the script.                                  *)
(***************************************************************************)
EXTENDS Integers, Sequences, FiniteSets, TLC

VARIABLES
    stdin,      \* the text on standard input, as the decoder classifies it
    data,       \* line 5: the decoded document
    stdout,     \* the lines print() has written, in order
    pc,         \* the statement about to run
    i,          \* the for loop's iterator position (entries already taken)
    p,          \* line 7: the loop variable
    price,      \* lines 10/12: int 0 or the float quotient, as a fraction
    archived,   \* line 13
    exc         \* the uncaught exception that ended the run ("" when none)

vars == <<stdin, data, stdout, pc, i, p, price, archived, exc>>

-----------------------------------------------------------------------------
(* Bounds of the model.                                                    *)

\* longest items list of the multi-entry documents
MaxItems == 2
\* longest prices list of a product
MaxPrices == 2

-----------------------------------------------------------------------------
(* JSON values as json.loads builds them.  A dict is the sequence of its   *)
(* <<key, value>> pairs in insertion order, as a Python dict keeps them.   *)

JNull == [t |-> "null"]
JBool(b) == [t |-> "bool", b |-> b]
JInt(n) == [t |-> "int", n |-> n]
JStr(s) == [t |-> "str", s |-> s]
JList(xs) == [t |-> "list", xs |-> xs]
JDict(kv) == [t |-> "dict", kv |-> kv]

\* a field left out of an object when the input documents are built
Absent == [t |-> "absent"]

\* the object holding the fields of `fields` whose value is not Absent
MkObj(fields) == JDict(SelectSeq(fields, LAMBDA f : f[2] # Absent))

-----------------------------------------------------------------------------
(* Python's operations on those values.  An operation that can raise       *)
(* returns [ok |-> TRUE, val |-> v] or [ok |-> FALSE, exc |-> name].       *)

Ok(v) == [ok |-> TRUE, val |-> v]
Raise(e) == [ok |-> FALSE, exc |-> e]

\* key in d, for a dict d
HasKey(d, k) == \E j \in DOMAIN d.kv : d.kv[j][1] = k

\* d[k], for a dict d that has the key
Lookup(d, k) == d.kv[CHOOSE j \in DOMAIN d.kv : d.kv[j][1] = k][2]

\* bool(v)
Truthy(v) ==
    CASE v.t = "null" -> FALSE
      [] v.t = "bool" -> v.b
      [] v.t = "int" -> v.n # 0
      [] v.t = "str" -> v.s # ""
      [] v.t = "list" -> v.xs # <<>>
      [] v.t = "dict" -> v.kv # <<>>

\* len(v)
PyLen(v) ==
    CASE v.t = "str" -> Ok(Len(v.s))
      [] v.t = "list" -> Ok(Len(v.xs))
      [] v.t = "dict" -> Ok(Len(v.kv))
      [] OTHER -> Raise("TypeError")

\* v.get(k) in the place of v[k]: no KeyError for a missing key
GetItemStr_get(v, k) ==
    CASE v.t = "dict" -> Ok(IF HasKey(v, k) THEN Lookup(v, k) ELSE JNull)
      [] OTHER -> Raise("TypeError")

\* v[k] with a string key k
GetItemStr(v, k) ==
    CASE v.t = "dict" -> IF HasKey(v, k) THEN Ok(Lookup(v, k)) ELSE Raise("KeyError")
      [] OTHER -> Raise("TypeError")

\* v[0], for a v that has a length greater than zero
GetItem0(v) ==
    CASE v.t = "list" -> Ok(v.xs[1])
      [] v.t = "str" -> Ok(JStr(SubSeq(v.s, 1, 1)))
      [] v.t = "dict" -> Raise("KeyError")
      [] OTHER -> Raise("TypeError")

\* v.get(k, default)
DictGet(v, k, default) ==
    IF v.t = "dict"
    THEN Ok(IF HasKey(v, k) THEN Lookup(v, k) ELSE default)
    ELSE Raise("AttributeError")

\* whether the string `sub` occurs in the string s
IsSubstring(sub, s) ==
    \E a \in 1..(Len(s) + 1) :
        a + Len(sub) - 1 <= Len(s) /\ SubSeq(s, a, a + Len(sub) - 1) = sub

\* k in v, with a string k
Contains(v, k) ==
    CASE v.t = "dict" -> Ok(HasKey(v, k))
      [] v.t = "list" -> Ok(\E j \in DOMAIN v.xs : v.xs[j] = JStr(k))
      [] v.t = "str" -> Ok(IsSubstring(k, v.s))
      [] OTHER -> Raise("TypeError")

\* the entries the for loop takes from v, in order
IterItems(v) ==
    CASE v.t = "list" -> v.xs
      [] v.t = "dict" -> [j \in DOMAIN v.kv |-> JStr(v.kv[j][1])]
      [] v.t = "str" -> [j \in 1..Len(v.s) |-> JStr(SubSeq(v.s, j, j))]

\* a number as the fraction num/den
Frac(num, den) == [num |-> num, den |-> den]

\* v // 100 in the place of v / 100: floor division
TrueDiv100_floor(v) ==
    CASE v.t = "int" -> Ok(Frac(v.n \div 100, 1))
      [] v.t = "bool" -> Ok(Frac(0, 1))
      [] OTHER -> Raise("TypeError")

\* v / 100: true division, a float
TrueDiv100(v) ==
    CASE v.t = "int" -> Ok(Frac(v.n, 100))
      [] v.t = "bool" -> Ok(Frac(IF v.b THEN 1 ELSE 0, 100))
      [] OTHER -> Raise("TypeError")

\* str(v), as an f-string field renders a value
PyStr(v) ==
    CASE v.t = "str" -> v.s
      [] v.t = "null" -> "None"
      [] v.t = "bool" -> IF v.b THEN "True" ELSE "False"
      [] v.t = "int" -> ToString(v.n)

\* n in 0..99 as two digits
TwoDigits(n) == IF n < 10 THEN "0" \o ToString(n) ELSE ToString(n)

\* format(q, ".2f"): q rounded to hundredths (half to even), sign, integer
\* part, point, two digits
Format2f(q) ==
    LET a == IF q.num < 0 THEN -q.num ELSE q.num
        scaled == a * 100
        fl == scaled \div q.den
        rem2 == 2 * (scaled % q.den)
        h == IF rem2 > q.den \/ (rem2 = q.den /\ fl % 2 = 1) THEN fl + 1 ELSE fl
    IN  (IF q.num < 0 THEN "-" ELSE "")
            \o ToString(h \div 100) \o "." \o TwoDigits(h % 100)

-----------------------------------------------------------------------------
(* The script's expressions.                                               *)

\* a decoder whose failure is caught and replaced by an empty document
json_loads_fallback(text) ==
    IF text.lex = "malformed"
    THEN Ok(JDict(<< <<"items", JList(<<>>)>> >>))
    ELSE Ok(text.value)

\* line 5, json.loads(sys.stdin.read()): the decoder raises on a text it
\* rejects and returns the value of a text it accepts.  With its default
\* arguments it accepts the texts of RFC 8259 and, beyond them, texts that
\* use the constants NaN, Infinity and -Infinity.
json_loads(text) ==
    IF text.lex = "malformed" THEN Raise("JSONDecodeError") ELSE Ok(text.value)

\* data.get("items", []) in the place of data["items"]
ItemsOf_default(d) ==
    IF d.t = "dict" /\ HasKey(d, "items") THEN Ok(Lookup(d, "items")) ELSE Ok(JList(<<>>))

\* lines 6 and 7, data["items"]
ItemsOf(d) == GetItemStr(d, "items")

\* line 6, len(data["items"])
ItemsLen(d) ==
    LET items == ItemsOf(d)
    IN  IF items.ok THEN PyLen(items.val) ELSE items

\* line 6, the f-string of the header
HeaderLine(n) == "Found " \o ToString(n) \o " products:"

\* p["prices"] in the place of p.get("prices")
PricesOf_subscript(q) == GetItemStr(q, "prices")

\* line 8, p.get('prices')
PricesOf(q) == DictGet(q, "prices", JNull)

\* lines 8-12, the price of product q: int 0, or price_amount / 100
PriceOf(q) ==
    LET prices == PricesOf(q)
    IN  IF ~prices.ok THEN prices
        ELSE IF ~Truthy(prices.val) THEN Ok(Frac(0, 1))
        ELSE LET n == PyLen(prices.val)
             IN  IF ~n.ok THEN n
                 ELSE IF ~(n.val > 0) THEN Ok(Frac(0, 1))
                 ELSE LET price_data == GetItem0(prices.val)
                      IN  IF ~price_data.ok THEN price_data
                          ELSE LET has == Contains(price_data.val, "price_amount")
                               IN  IF ~has.ok THEN has
                                   ELSE IF ~has.val THEN Ok(Frac(0, 1))
                                   ELSE LET amount == DictGet(price_data.val, "price_amount", JInt(0))
                                        IN  IF ~amount.ok THEN amount
                                            ELSE TrueDiv100(amount.val)

\* is_archived compared with True in the place of its truth value
ArchivedOf_strict(q) ==
    IF DictGet(q, "is_archived", JNull).val = JBool(TRUE) THEN " [ARCHIVED]" ELSE ""

\* line 13, the archived suffix of product q (q is a dict here: line 8 ran)
ArchivedOf(q) ==
    IF Truthy(DictGet(q, "is_archived", JNull).val) THEN " [ARCHIVED]" ELSE ""

\* p.get("recurring_interval") without the default
IntervalOf_nodefault(q) == PyStr(DictGet(q, "recurring_interval", JNull).val)

\* line 14, the interval field: p.get("recurring_interval", "?")
IntervalOf(q) == PyStr(DictGet(q, "recurring_interval", JStr("?")).val)

\* line 14, the f-string of a product line
FormatLine(name, pr, interval, arch) ==
    "  - " \o PyStr(name) \o " ($" \o Format2f(pr) \o "/" \o interval \o ") " \o arch

\* the exit status of the interpreter: 1 after an uncaught exception
ExitStatus == IF exc = "" THEN 0 ELSE 1

-----------------------------------------------------------------------------
(* The inputs the model runs the script on.                                *)

Amounts == {0, 7, 500, 1999, -5}

\* what element 0 of a prices list may be
FirstPriceRecs ==
    {MkObj(<< <<"price_amount", a>> >>) :
        a \in {Absent, JNull, JStr("9.99")} \cup {JInt(n) : n \in Amounts}}
    \cup {JInt(3), JStr("price_amount"), JList(<<>>)}

\* what the later elements of a prices list may be
LaterPriceRecs == {MkObj(<< <<"price_amount", JInt(1)>> >>), JDict(<<>>), JNull}

RECURSIVE SeqsUpTo(_, _)
\* the sequences over S of length at most n
SeqsUpTo(S, n) ==
    IF n = 0 THEN {<<>>}
    ELSE LET shorter == SeqsUpTo(S, n - 1)
         IN  shorter \cup {Append(s, x) : s \in shorter, x \in S}

PricesLists ==
    {JList(<<>>)} \cup
    {JList(<<first>> \o rest) :
        first \in FirstPriceRecs, rest \in SeqsUpTo(LaterPriceRecs, MaxPrices - 1)}

PricesVals ==
    PricesLists \cup
    {Absent, JNull, JInt(5), JBool(TRUE), JStr(""), JStr("abc"), JDict(<<>>),
     JDict(<< <<"a", JInt(1)>> >>)}

NameVals == {Absent, JStr("Pro"), JNull}
ArchivedVals == {Absent, JBool(TRUE), JBool(FALSE), JNull, JStr("no")}
IntervalVals == {Absent, JStr("month"), JNull}

Product(name, prices, is_archived, recurring_interval) ==
    MkObj(<< <<"name", name>>, <<"prices", prices>>,
             <<"is_archived", is_archived>>,
             <<"recurring_interval", recurring_interval>> >>)

\* every combination of the field values above
Products ==
    {Product(n, pr, a, r) :
        n \in NameVals, pr \in PricesVals, a \in ArchivedVals, r \in IntervalVals}

Amount(n) == JList(<< MkObj(<< <<"price_amount", n>> >>) >>)

\* the entries of the documents that have several entries
Entries ==
    {Product(JStr("Pro"), Amount(JInt(2500)), JBool(FALSE), JStr("month")),
     Product(JStr("Old"), Absent, JBool(TRUE), Absent),
     Product(Absent, Amount(JInt(500)), Absent, JStr("year")),
     Product(JStr("Bad"), Amount(JNull), Absent, Absent),
     JInt(5)}

Doc(items) == MkObj(<< <<"items", items>> >>)

\* documents whose items is not a list, or that have no items
OddDocs ==
    {JNull, JList(<<>>), JStr("items"), JDict(<<>>)} \cup
    {Doc(v) : v \in {JNull, JInt(3), JBool(TRUE), JStr(""), JStr("ab"),
                     JDict(<<>>), JDict(<< <<"a", JInt(1)>> >>)}}

ListDocs == {Doc(JList(s)) : s \in SeqsUpTo(Entries, MaxItems)}

OneProductDocs == {Doc(JList(<<q>>)) : q \in Products}

Docs == OddDocs \cup ListDocs \cup OneProductDocs

\* the texts on standard input: lex says whether the text is JSON ("rfc8259"),
\* JSON but for the constants NaN/Infinity in a field the script ignores
\* ("python_ext"), or a text the decoder rejects ("malformed", e.g. not json)
Inputs ==
    {[lex |-> "malformed", value |-> JNull]}
    \cup {[lex |-> "rfc8259", value |-> d] : d \in Docs}
    \cup {[lex |-> "python_ext", value |-> d] : d \in OddDocs \cup ListDocs}

-----------------------------------------------------------------------------
(* The run.                                                                *)

Init ==
    /\ stdin \in Inputs
    /\ data = JNull
    /\ stdout = <<>>
    /\ pc = "loads"
    /\ i = 0
    /\ p = JNull
    /\ price = Frac(0, 1)
    /\ archived = ""
    /\ exc = ""

\* a write that replaces the output in the place of appending to it
print_overwrite(line) == stdout' = <<line>>

\* print(line)
print(line) == stdout' = Append(stdout, line)

\* an exception that is recorded while the loop goes on
Abort_continue(e) == exc' = e /\ pc' = "for"

\* an uncaught exception ends the run
Abort(e) == exc' = e /\ pc' = "exit"

\* line 5
Loads ==
    /\ pc = "loads"
    /\ LET r == json_loads(stdin)
       IN  IF r.ok
           THEN data' = r.val /\ pc' = "header" /\ UNCHANGED exc
           ELSE Abort(r.exc) /\ UNCHANGED data
    /\ UNCHANGED <<stdin, stdout, i, p, price, archived>>

\* line 6
Header ==
    /\ pc = "header"
    /\ LET n == ItemsLen(data)
       IN  IF n.ok
           THEN print(HeaderLine(n.val)) /\ pc' = "for" /\ UNCHANGED exc
           ELSE Abort(n.exc) /\ UNCHANGED stdout
    /\ UNCHANGED <<stdin, data, i, p, price, archived>>

\* the loop taking the entries of items from the last to the first
For_reversed ==
    /\ pc = "for"
    /\ LET entries == IterItems(ItemsOf(data).val)
       IN  IF i < Len(entries)
           THEN p' = entries[Len(entries) - i] /\ i' = i + 1 /\ pc' = "price"
           ELSE pc' = "exit" /\ UNCHANGED <<i, p>>
    /\ UNCHANGED <<stdin, data, stdout, price, archived, exc>>

\* line 7: the loop takes its next entry, or ends and the script with it
For ==
    /\ pc = "for"
    /\ LET entries == IterItems(ItemsOf(data).val)
       IN  IF i < Len(entries)
           THEN p' = entries[i + 1] /\ i' = i + 1 /\ pc' = "price"
           ELSE pc' = "exit" /\ UNCHANGED <<i, p>>
    /\ UNCHANGED <<stdin, data, stdout, price, archived, exc>>

\* lines 8-12
Price ==
    /\ pc = "price"
    /\ LET r == PriceOf(p)
       IN  IF r.ok
           THEN price' = r.val /\ pc' = "archived" /\ UNCHANGED exc
           ELSE Abort(r.exc) /\ UNCHANGED price
    /\ UNCHANGED <<stdin, data, stdout, i, p, archived>>

\* line 13
Archived ==
    /\ pc = "archived"
    /\ archived' = ArchivedOf(p)
    /\ pc' = "print"
    /\ UNCHANGED <<stdin, data, stdout, i, p, price, exc>>

\* line 14
PrintLine ==
    /\ pc = "print"
    /\ LET name == GetItemStr(p, "name")
       IN  IF name.ok
           THEN /\ print(FormatLine(name.val, price, IntervalOf(p), archived))
                /\ pc' = "for"
                /\ UNCHANGED exc
           ELSE Abort(name.exc) /\ UNCHANGED stdout
    /\ UNCHANGED <<stdin, data, i, p, price, archived>>

Next == Loads \/ Header \/ For \/ Price \/ Archived \/ PrintLine

Spec == Init /\ [][Next]_vars

\* the interpreter runs the script's statements one after another until it
\* exits: no statement waits on anything
FairSpec == Spec /\ WF_vars(Next)

-----------------------------------------------------------------------------
(* Vocabulary of the properties.                                           *)

Exited == pc = "exit"
Succeeded == pc = "exit" /\ ExitStatus = 0
Failed == pc = "exit" /\ ExitStatus # 0

\* the document on standard input has an items key
InputHasItems == stdin.value.t = "dict" /\ HasKey(stdin.value, "items")

\* the value of items in the document on standard input
InputItems == Lookup(stdin.value, "items")

\* the entries of items in order (none when items cannot be iterated)
InputEntries ==
    IF InputHasItems /\ InputItems.t \in {"list", "dict", "str"}
    THEN IterItems(InputItems)
    ELSE <<>>

\* items is a sequence (a JSON array)
InputItemsIsList == InputHasItems /\ InputItems.t = "list"

\* entry e is a product record that carries name
CarriesName(e) == e.t = "dict" /\ HasKey(e, "name")

\* the prices field of product q is absent or falsy, or a list whose element
\* 0 is an object whose price_amount, if present, is a number
PricesWellFormed(q) ==
    \/ ~HasKey(q, "prices")
    \/ LET v == Lookup(q, "prices")
       IN  \/ ~Truthy(v)
           \/ /\ v.t = "list"
              /\ v.xs[1].t = "dict"
              /\ HasKey(v.xs[1], "price_amount")
                    => Lookup(v.xs[1], "price_amount").t = "int"

\* the line the script's expressions render for product q
LineOf(q) ==
    FormatLine(Lookup(q, "name"), PriceOf(q).val, IntervalOf(q), ArchivedOf(q))

\* a product line has just been written for the loop variable p
JustPrinted == pc = "for" /\ i > 0

\* the line written last
LastLine == stdout[Len(stdout)]

\* string s ends with suf
EndsWith(s, suf) ==
    Len(s) >= Len(suf) /\ SubSeq(s, Len(s) - Len(suf) + 1, Len(s)) = suf

\* the position of the first/last occurrence of the one-character string c
\* in s (c occurs in s)
FirstIndex(s, c) == CHOOSE a \in 1..Len(s) :
    SubSeq(s, a, a) = c /\ \A b \in 1..(a - 1) : SubSeq(s, b, b) # c
LastIndex(s, c) == CHOOSE a \in 1..Len(s) :
    SubSeq(s, a, a) = c /\ \A b \in (a + 1)..Len(s) : SubSeq(s, b, b) # c

\* the text of a product line between "$" and the last "/"
PricePart(line) == SubSeq(line, FirstIndex(line, "$") + 1, LastIndex(line, "/") - 1)

\* the text of a product line between the last "/" and the last ")"
IntervalPart(line) == SubSeq(line, LastIndex(line, "/") + 1, LastIndex(line, ")") - 1)

\* n hundredths written in major units with two decimals (500 is "5.00")
Hundredths(n) ==
    LET a == IF n < 0 THEN -n ELSE n
    IN  (IF n < 0 THEN "-" ELSE "") \o ToString(a \div 100) \o "."
            \o (IF a % 100 < 10 THEN "0" ELSE "") \o ToString(a % 100)

-----------------------------------------------------------------------------
(* C1: a run that completes has written exactly the header "Found N        *)
(* products:", N the number of entries of items, then N product lines, the *)
(* j-th rendered from the j-th entry; for an empty items the header "Found *)
(* 0 products:" and nothing else.                                          *)
C1_OutputShape ==
    Succeeded =>
        LET entries == InputEntries
            N == Len(entries)
        IN  /\ Len(stdout) = N + 1
            /\ stdout[1] = "Found " \o ToString(N) \o " products:"
            /\ \A j \in 1..N : stdout[j + 1] = LineOf(entries[j])
            /\ N = 0 => stdout = <<"Found 0 products:">>

C1_Witness ==
    /\ Succeeded
    /\ InputItemsIsList
    /\ Len(stdout) = 3
    /\ stdout[1] = "Found 2 products:"
    /\ stdout[2] = "  - Pro ($25.00/month) "
    /\ stdout[3] = "  - Old ($0.00/?)  [ARCHIVED]"

(* C2: the displayed price of every line written is price_amount / 100     *)
(* with two decimals when prices is a non-empty list whose element 0       *)
(* carries price_amount, and "0.00" otherwise; the line is the one the     *)
(* product renders with every later element of prices removed.             *)
FirstPriceOnly(q) ==
    JDict([j \in DOMAIN q.kv |->
        IF q.kv[j][1] = "prices" /\ q.kv[j][2].t = "list" /\ q.kv[j][2].xs # <<>>
        THEN <<"prices", JList(<<q.kv[j][2].xs[1]>>)>>
        ELSE q.kv[j]])

C2_DisplayedPrice ==
    JustPrinted =>
        /\ PricePart(LastLine) =
            IF /\ HasKey(p, "prices")
               /\ Lookup(p, "prices").t = "list"
               /\ Lookup(p, "prices").xs # <<>>
               /\ Lookup(p, "prices").xs[1].t = "dict"
               /\ HasKey(Lookup(p, "prices").xs[1], "price_amount")
            THEN Hundredths(Lookup(Lookup(p, "prices").xs[1], "price_amount").n)
            ELSE "0.00"
        /\ LastLine = LineOf(FirstPriceOnly(p))

C2_Witness ==
    /\ JustPrinted
    /\ HasKey(p, "prices")
    /\ Lookup(p, "prices").t = "list"
    /\ Len(Lookup(p, "prices").xs) >= 2
    /\ PricePart(LastLine) = "19.99"

(* C3: every line written ends with " [ARCHIVED]" when is_archived is      *)
(* truthy; when is_archived is absent or false it carries no suffix and    *)
(* ends right after ") ".                                                  *)
C3_ArchivedSuffix ==
    JustPrinted =>
        /\ (HasKey(p, "is_archived") /\ Truthy(Lookup(p, "is_archived")))
                => EndsWith(LastLine, " [ARCHIVED]")
        /\ (~HasKey(p, "is_archived") \/ Lookup(p, "is_archived") = JBool(FALSE))
                => /\ ~EndsWith(LastLine, " [ARCHIVED]")
                   /\ EndsWith(LastLine, ") ")
                   /\ LastIndex(LastLine, ")") = Len(LastLine) - 1

C3_Witness ==
    /\ JustPrinted
    /\ HasKey(p, "is_archived")
    /\ Lookup(p, "is_archived") = JStr("no")
    /\ EndsWith(LastLine, ")  [ARCHIVED]")

(* C4: the interval part of every line written is the product's            *)
(* recurring_interval when the record has the key (a text as it is, null   *)
(* as Python writes it, "None"), and "?" when the record has not the key.  *)
C4_IntervalPart ==
    JustPrinted =>
        IntervalPart(LastLine) =
            IF HasKey(p, "recurring_interval")
            THEN LET v == Lookup(p, "recurring_interval")
                 IN  IF v.t = "str" THEN v.s ELSE "None"
            ELSE "?"

C4_Witness ==
    /\ JustPrinted
    /\ ~HasKey(p, "recurring_interval")
    /\ IntervalPart(LastLine) = "?"
    /\ HasKey(p, "name")

(* C5, as stated: on a JSON input whose items is a sequence of records     *)
(* that all carry name, whatever their other fields hold, the run          *)
(* completes the loop and exits with status zero; and status zero only     *)
(* after the full loop.                                                    *)
AllCarryName ==
    /\ stdin.lex = "rfc8259"
    /\ InputItemsIsList
    /\ \A j \in DOMAIN InputItems.xs : CarriesName(InputItems.xs[j])

LoopCompleted ==
    /\ InputHasItems
    /\ i = Len(InputEntries)
    /\ Len(stdout) = i + 1

C5_AsStated ==
    /\ (AllCarryName /\ Exited) => (Succeeded /\ LoopCompleted)
    /\ Succeeded => LoopCompleted

(* C5, amended: the same, for the inputs whose records also have a prices  *)
(* field that is absent or falsy, or a list whose element 0 is an object   *)
(* whose price_amount, if present, is a number: an ill-typed prices is a   *)
(* fourth failure mode.                                                    *)
C5_WellFormedCompletes ==
    /\ (/\ AllCarryName
        /\ \A j \in DOMAIN InputItems.xs : PricesWellFormed(InputItems.xs[j])
        /\ Exited)
            => (Succeeded /\ LoopCompleted)
    /\ Succeeded => LoopCompleted

C5_Witness ==
    /\ Succeeded
    /\ AllCarryName
    /\ Len(InputItems.xs) = 1
    /\ ~HasKey(InputItems.xs[1], "prices")
    /\ ~HasKey(InputItems.xs[1], "is_archived")
    /\ stdout = <<"Found 1 products:", "  - Pro ($0.00/?) ">>

(* C6, as stated: when the document has no items key, or items is not a    *)
(* sequence, the run never completes successfully and ends with a non-zero *)
(* status.                                                                 *)
Decoded == stdin.lex # "malformed"

C6_AsStated ==
    (Decoded /\ ~InputItemsIsList) => (~Succeeded /\ (Exited => Failed))

(* C6, amended: when the document has no items key, or items is null, a    *)
(* boolean, a number, a non-empty object or a non-empty string, the run    *)
(* never completes successfully, and it ends with a non-zero status.  (An  *)
(* empty object or empty string as items is a run of zero products.)       *)
ItemsUnusable ==
    /\ Decoded
    /\ \/ ~InputHasItems
       \/ InputItems.t \in {"null", "bool", "int"}
       \/ InputItems.t \in {"dict", "str"} /\ Truthy(InputItems)

C6_UnusableItemsFail ==
    /\ [](ItemsUnusable => ~Succeeded)
    /\ (ItemsUnusable ~> Failed)

C6_Witness ==
    /\ ItemsUnusable
    /\ InputHasItems
    /\ InputItems = JStr("ab")
    /\ Failed
    /\ exc = "AttributeError"
    /\ stdout = <<"Found 2 products:">>

(* C7, as stated: when standard input is not valid JSON, the run ends with *)
(* a non-zero status and standard output stays empty.                      *)
C7_AsStated ==
    stdin.lex # "rfc8259" => (stdout = <<>> /\ (Exited => Failed))

(* C7, amended: when the decoder rejects standard input (every text that   *)
(* is not JSON, but for those that are JSON except for the constants NaN,  *)
(* Infinity and -Infinity), the run ends with a non-zero status and        *)
(* standard output stays empty.                                            *)
C7_RejectedInputFails ==
    /\ [](stdin.lex = "malformed" => (stdout = <<>> /\ ~Succeeded))
    /\ (stdin.lex = "malformed" ~> Failed)

C7_Witness ==
    /\ stdin.lex = "malformed"
    /\ Failed
    /\ exc = "JSONDecodeError"
    /\ stdout = <<>>

(* C8, as stated: when items is a sequence and the first entry lacking     *)
(* name is entry k, the run ends with a non-zero status and standard       *)
(* output is exactly the header and the lines of the entries before k.     *)
SomeLacksName ==
    /\ Decoded
    /\ InputItemsIsList
    /\ \E j \in DOMAIN InputItems.xs : ~CarriesName(InputItems.xs[j])

\* the position in items (from 1) of the first entry lacking name
FirstNameless ==
    CHOOSE k \in DOMAIN InputItems.xs :
        /\ ~CarriesName(InputItems.xs[k])
        /\ \A j \in 1..(k - 1) : CarriesName(InputItems.xs[j])

C8_AsStated ==
    (SomeLacksName /\ Exited) =>
        /\ Failed
        /\ Len(stdout) = FirstNameless
        /\ stdout[1] = HeaderLine(Len(InputItems.xs))
        /\ \A j \in 1..(FirstNameless - 1) : stdout[j + 1] = LineOf(InputItems.xs[j])

(* C8, amended: in that case the run never completes successfully and ends *)
(* with a non-zero status, no line is ever written for entry k or a later  *)
(* one, and when the prices fields of the entries before k are well formed *)
(* (as in C5) the output at exit is exactly the header and the lines of    *)
(* the entries before k; otherwise it is a prefix of that.                 *)
C8_NamelessStops ==
    SomeLacksName =>
        /\ ~Succeeded
        /\ Len(stdout) <= FirstNameless
        /\ Len(stdout) >= 1 => stdout[1] = HeaderLine(Len(InputItems.xs))
        /\ \A j \in 1..(Len(stdout) - 1) : stdout[j + 1] = LineOf(InputItems.xs[j])
        /\ (/\ Exited
            /\ \A j \in 1..(FirstNameless - 1) : PricesWellFormed(InputItems.xs[j]))
                => Len(stdout) = FirstNameless

C8_Witness ==
    /\ SomeLacksName
    /\ FirstNameless = 2
    /\ Failed
    /\ exc = "KeyError"
    /\ stdout = <<"Found 2 products:", "  - Old ($0.00/?)  [ARCHIVED]">>

(* C9: nothing is written before standard input has been read and         *)
(* decoded; the first line written is the header; the line of an entry is  *)
(* written before the next entry is taken; and a step never removes or     *)
(* alters a line already written, a failing step writing nothing.          *)
C9_Order ==
    /\ stdout # <<>> => /\ Decoded
                        /\ data = stdin.value
                        /\ stdout[1] = HeaderLine(Len(InputEntries))
    /\ pc = "loads" => stdout = <<>>
    /\ pc \in {"price", "archived", "print"} => Len(stdout) = i
    /\ pc = "for" => Len(stdout) = i + 1

C9_AppendOnly ==
    /\ \/ stdout' = stdout
       \/ \E line \in {stdout'[Len(stdout')]} : stdout' = Append(stdout, line)
    /\ exc' # "" => stdout' = stdout

C9_IncrementalOutput == []C9_Order /\ [][C9_AppendOnly]_vars

C9_Witness ==
    /\ pc = "price"
    /\ i = 2
    /\ stdout = <<"Found 2 products:", "  - Pro ($25.00/month) ">>
    /\ p = JInt(5)

(* C10: every run ends, in exactly one of success (status zero) and        *)
(* failure (non-zero status), and stays there; the loop takes each entry   *)
(* of items at most once, in order, never going back; and nothing is       *)
(* written once a failure has occurred.                                    *)
C10_Final ==
    /\ pc = "exit" => ExitStatus \in {0, 1}
    /\ exc # "" => pc = "exit"
    /\ i <= Len(InputEntries)
    /\ Len(stdout) <= i + 1
    /\ i > 0 => p = InputEntries[i]

C10_Step ==
    /\ i' \in {i, i + 1}
    /\ pc = "exit" => UNCHANGED vars
    /\ exc # "" => stdout' = stdout
    /\ Len(stdout') <= Len(stdout) + 1

C10_Terminates == <>Exited /\ []C10_Final /\ [][C10_Step]_vars

C10_Witness ==
    /\ Failed
    /\ InputItemsIsList
    /\ Len(InputItems.xs) = 2
    /\ i = 1
    /\ exc = "TypeError"
    /\ stdout = <<"Found 2 products:">>

====
